---- MODULE Spec2Model ----
(***************************************************************************)
(* Model of the persistence and reconciliation core of index.py: several   *)
(* Streamlit sessions (one script run per form submission) share one       *)
(* workbook, construction_data.xlsx, and one lock file.  read_sheet is     *)
(* unlocked; write_sheet rewrites one sheet under a FileLock with a        *)
(* timeout; append_row and the Record Expense reconciler are a read        *)
(* followed by a separate locked write.                                    *)
(*                                                                         *)
(* Abstractions: time is not modelled, so FileLock's timeout can fire      *)
(* whenever the lock is held by another session; a save of the workbook    *)
(* by ExcelWriter is one atomic step; uuid4() is a fresh natural number;   *)
(* columns that no code path inspects and every handler fills with a       *)
(* free-text input or a constant (names, role, phone, email, dates,        *)
(* timestamps, status, expense type, payment mode, notes, receipt path,    *)
(* is_active, object_type, details) are left out of the rows; of the       *)
(* empty-string placeholders the handlers write, end_date and approved_by  *)
(* are kept.  The five read_sheet calls at the top of a script run are     *)
(* one step.                                                               *)
(***************************************************************************)
EXTENDS Integers, Sequences, FiniteSets, TLC

\* ---------------------------------------------------------------- bounds
MaxRuns == 2            \* script runs (form submissions) in one behaviour

Procs == {"s1", "s2"}   \* browser sessions sharing the workbook
NoProc == "nobody"
Amounts == {1, 2}       \* amounts typed into the Record Expense form
Grants == {2}           \* amounts typed into the Allocate Funds form

\* ------------------------------------------------------------- constants
Sheets ==
  {"companies", "engineers", "sites", "assignments", "fund_allocations",
   "expenses", "audit_log"}

Pages ==
  {"Allocate Funds", "Assign Engineer", "Record Expense", "Approve",
   "Reject", "Add Engineer", "Add Site"}

\* st.session_state.user of a session, f"{name} <{email}>"
User(p) == IF p = "s1" THEN "Alice <a>" ELSE "Bob <b>"

NoneId == 0             \* st.selectbox over an empty option list gives None
NaN == "nan"            \* pandas' missing value in a DataFrame
Blank == ""             \* an empty cell of the workbook

\* columns holding text; the others hold numbers or booleans
TextCols == {"end_date", "assigned_by", "approved_by", "action", "user"}

\* ------------------------------------------------------------ conversions
\* DataFrame.to_excel: openpyxl stores "" and NaN alike as an empty cell
to_excel(df) ==
  [i \in DOMAIN df |->
     [c \in DOMAIN df[i] |->
        IF c \in TextCols /\ df[i][c] \in {"", NaN} THEN Blank ELSE df[i][c]]]

\* pd.read_excel: an empty cell comes back as NaN
read_excel(ws) ==
  [i \in DOMAIN ws |->
     [c \in DOMAIN ws[i] |->
        IF c \in TextCols /\ ws[i][c] = Blank THEN NaN ELSE ws[i][c]]]

\* the workbook ensure_workbook creates: seven header-only sheets
EmptyBook == [t \in Sheets |-> <<>>]

\* ------------------------------------------------------------------ rows
EngineerRow(id) == [engineer_id |-> id, active |-> TRUE]

SiteRow(id) == [site_id |-> id, end_date |-> ""]

AssignmentRow(id, e, s, by) ==
  [assignment_id |-> id, engineer_id |-> e, site_id |-> s, assigned_by |-> by]

AllocationRow(id, e, s, amount) ==
  [allocation_id |-> id, engineer_id |-> e, site_id |-> s,
   amount_allocated |-> amount, balance_remaining |-> amount]

ExpenseRow(id, s, e, amount) ==
  [expense_id |-> id, site_id |-> s, engineer_id |-> e, amount |-> amount,
   approved_by |-> "", approved |-> FALSE]

AuditRow(id, action, oid, user) ==
  [log_id |-> id, action |-> action, object_id |-> oid, user |-> user]

\* the action each handler passes to log()
LogAction(page) ==
  CASE page = "Allocate Funds"  -> "allocate_funds"
    [] page = "Assign Engineer" -> "assign_engineer"
    [] page = "Record Expense"  -> "create_expense"
    [] page = "Approve"         -> "approve_expense"
    [] page = "Reject"          -> "reject_expense"
    [] page = "Add Engineer"    -> "create_engineer"
    [] page = "Add Site"        -> "create_site"

\* ----------------------------------------------------------------- state
VARIABLES
  exists,    \* os.path.exists(DATA_FILE)
  book,      \* the workbook: sheet name -> sequence of rows
  lock,      \* the session holding LOCK_FILE, or NoProc
  pc,        \* where each session's script run stands
  run,       \* the locals of each session's script run
  screen,    \* output of the step just taken: the page of a run that ended
  runs,      \* script runs started so far
  nextId,    \* the next value uuid4() returns in each session
  debits     \* history: the debits the reconciler routed to allocations

vars == <<exists, book, lock, pc, run, screen, runs, nextId, debits>>

\* uuid4(): the values drawn in different sessions never collide; session
\* s1 draws the odd numbers and s2 the even ones
FirstId(p) == IF p = "s1" THEN 1 ELSE 2
uuid4(last) == last + Cardinality(Procs)

\* the locals of a script run that has not started; busy: the st.error of
\* write_sheet's Timeout handler is on the page
NoRun ==
  [page |-> "", stage |-> "", sheet |-> "", df |-> <<>>, row |-> <<>>,
   eng |-> NoneId, site |-> NoneId, amount |-> 0, object_id |-> NoneId,
   busy |-> FALSE]

\* what a session's page shows when its script run ends: the handler's
\* final st.success ("success") or the trace of an uncaught exception
\* ("exception"), with or without the st.error of a lock timeout (busy)
Page(p, busy, outcome) == [session |-> p, busy |-> busy, outcome |-> outcome]

NoScreen == Page(NoProc, FALSE, "none")

\* ------------------------------------------------------------- read side
\* read_sheet after its ensure_workbook call found the workbook
read_sheet(sheet_name) == read_excel(book[sheet_name])

Column(df, c) == {df[i][c] : i \in DOMAIN df}

\* the options of a selectbox; an empty list makes the widget return None
Options(ids) == IF ids = {} THEN {NoneId} ELSE ids

\* line 125: engineers_df[engineers_df["active"] != False]
ActiveEngineers(df) == {df[i].engineer_id : i \in {j \in DOMAIN df : df[j].active # FALSE}}

\* line 217: expenses_df[expenses_df["approved"] != True]
Pending(df) == {df[i].expense_id : i \in {j \in DOMAIN df : df[j].approved # TRUE}}

\* ------------------------------------------------------------ reconciler
\* line 206: the mask of the candidate allocations; a None choice equals
\* no cell
Mask(df, e, s) ==
  {i \in DOMAIN df :
     /\ e # NoneId /\ df[i].engineer_id = e
     /\ s # NoneId /\ df[i].site_id = s
     /\ df[i].balance_remaining > 0}

\* the last candidate instead of the first
LastIndex(m) == CHOOSE i \in m : \A j \in m : i >= j

\* line 208: alloc_df[mask].index[0]
FirstIndex(m) == CHOOSE i \in m : \A j \in m : i <= j

\* line 209: the balance after the debit, no floor
Debited(balance, amount) == balance - amount

\* lines 207-209: the frame the reconciler writes back
Reconciled(df, e, s, amount) ==
  LET idx == FirstIndex(Mask(df, e, s))
  IN  [df EXCEPT ![idx].balance_remaining = Debited(@, amount)]

\* lines 229-230, 236-237: set approved / approved_by on the loaded frame
Reviewed(df, id, verdict, user) ==
  [i \in DOMAIN df |->
     IF df[i].expense_id = id
       THEN [df[i] EXCEPT !.approved = verdict, !.approved_by = user]
       ELSE df[i]]

\* line 55: pd.concat([df, pd.DataFrame([row_dict])])
Concat(df, row_dict) == Append(df, row_dict)

\* the Approvals handler writing its frame over the allocations
AllocationsSheet == "fund_allocations"

\* lines 231, 238: write_sheet("expenses", expenses_df)
ReviewedSheet == "expenses"

\* ----------------------------------------------------------------- Init
\* no session has a script run in progress
InitSessions ==
  /\ lock = NoProc
  /\ pc = [p \in Procs |-> "idle"]
  /\ run = [p \in Procs |-> NoRun]
  /\ screen = NoScreen
  /\ runs = 0

\* no workbook yet: the first script run of the deployment
InitFresh ==
  /\ InitSessions
  /\ exists = FALSE
  /\ book = EmptyBook
  /\ nextId = [p \in Procs |-> FirstId(p)]
  /\ debits = {}

\* the workbook left by five earlier runs of session s1, one after the
\* other: Add Engineer, Add Site, Allocate Funds 2, Allocate Funds 1 and
\* Record Expense 1 (debited to the first allocation); s1 drew the ids
\* 1, 3, .. 19
SeedBook ==
  [t \in Sheets |->
     CASE t = "engineers" -> to_excel(<<EngineerRow(1)>>)
       [] t = "sites" -> to_excel(<<SiteRow(5)>>)
       [] t = "fund_allocations" ->
            to_excel(<<[AllocationRow(9, 1, 5, 2) EXCEPT !.balance_remaining = 1],
                       AllocationRow(13, 1, 5, 1)>>)
       [] t = "expenses" -> to_excel(<<ExpenseRow(17, 5, 1, 1)>>)
       [] t = "audit_log" ->
            to_excel(<<AuditRow(3, "create_engineer", 1, User("s1")),
                       AuditRow(7, "create_site", 5, User("s1")),
                       AuditRow(11, "allocate_funds", 9, User("s1")),
                       AuditRow(15, "allocate_funds", 13, User("s1")),
                       AuditRow(19, "create_expense", 17, User("s1"))>>)
       [] OTHER -> <<>>]

Init ==
  /\ InitSessions
  /\ exists = TRUE
  /\ book = SeedBook
  /\ nextId = [p \in Procs |-> IF p = "s1" THEN uuid4(19) ELSE FirstId(p)]
  /\ debits = {[allocation_id |-> 9, expense_id |-> 17, amount |-> 1]}

\* ------------------------------------------------------------ write side
\* a lock that lets every caller in
LockNotChecked(p) == TRUE

\* FileLock.acquire succeeds when no session holds LOCK_FILE
LockFree(p) == lock = NoProc

\* FileLock gives up after LOCK_TIMEOUT when another session holds the lock
LockHeldByOther(p) == lock \notin {NoProc, p}

\* a lock that stays with the session that leaves the with block
NotReleased(p) == p

\* leaving "with lock:" releases the lock, normally or by an exception
Released(p) == NoProc

\* ExcelWriter(mode="w"): a new workbook that holds the named sheet only
ReplacedWorkbook(b, sheet_name, df) ==
  [t \in Sheets |-> IF t = sheet_name THEN to_excel(df) ELSE <<>>]

\* lines 48-49: ExcelWriter(mode="a", if_sheet_exists="replace") loads the
\* workbook, replaces the named sheet and saves
Replaced(b, sheet_name, df) == [b EXCEPT ![sheet_name] = to_excel(df)]

\* a Timeout handler that goes on to write without the lock
WrittenOnTimeout(b, sheet_name, df) == Replaced(b, sheet_name, df)

\* lines 50-51: the Timeout handler shows an error and writes nothing
OnTimeout(b, sheet_name, df) == b

\* a Record Expense handler that calls log() right after its expense append
AfterWriteLogFirst(p, timed_out) ==
  LET r == [run[p] EXCEPT !.busy = @ \/ timed_out, !.sheet = "",
                          !.df = <<>>, !.row = <<>>]
  IN  IF r.stage = "audit"
        THEN /\ pc' = [pc EXCEPT ![p] = "idle"]
             /\ run' = [run EXCEPT ![p] = NoRun]
             /\ screen' = Page(p, r.busy, "success")
        ELSE /\ pc' = [pc EXCEPT ![p] = "log"]
             /\ run' = [run EXCEPT ![p] = [r EXCEPT !.stage = "audit"]]
             /\ screen' = NoScreen

\* the statement of the handler that follows a write_sheet call, which
\* returned after a timeout (timed_out) or after the rewrite: Record
\* Expense goes on to the reconciler, every handler then calls log(), and
\* after log() shows its st.success message; the frame and the row of the
\* call that returned are dead
AfterWrite(p, timed_out) ==
  LET r == [run[p] EXCEPT !.busy = @ \/ timed_out, !.sheet = "",
                          !.df = <<>>, !.row = <<>>]
  IN  IF r.stage = "audit"
        THEN /\ pc' = [pc EXCEPT ![p] = "idle"]
             /\ run' = [run EXCEPT ![p] = NoRun]
             /\ screen' = Page(p, r.busy, "success")
        ELSE /\ IF r.stage = "primary" /\ r.page = "Record Expense"
                  THEN /\ pc' = [pc EXCEPT ![p] = "reconcile"]
                       /\ run' = [run EXCEPT ![p] = [r EXCEPT !.stage = "debit"]]
                  ELSE /\ pc' = [pc EXCEPT ![p] = "log"]
                       /\ run' = [run EXCEPT ![p] = [r EXCEPT !.stage = "audit"]]
             /\ screen' = NoScreen

\* --------------------------------------------------------------- actions
\* a script run starts: from idle when the workbook exists (the
\* ensure_workbook calls of its read_sheet calls find it), or after this
\* run created it
Ready(p) ==
  \/ pc[p] = "load"
  \/ pc[p] = "idle" /\ exists /\ runs < MaxRuns

Begin(p) ==
  /\ runs' = IF pc[p] = "idle" THEN runs + 1 ELSE runs
  /\ screen' = NoScreen

\* line 20 of ensure_workbook, reached from the first read_sheet of a run:
\* os.path.exists(DATA_FILE) is false
FindNoWorkbook(p) ==
  /\ pc[p] = "idle" /\ ~exists /\ runs < MaxRuns
  /\ pc' = [pc EXCEPT ![p] = "create"]
  /\ Begin(p)
  /\ UNCHANGED <<exists, book, lock, run, nextId, debits>>

\* lines 21-33 of ensure_workbook: write the seven empty sheets, whatever
\* the file holds by now
ensure_workbook(p) ==
  /\ pc[p] = "create"
  /\ exists' = TRUE
  /\ book' = EmptyBook
  /\ pc' = [pc EXCEPT ![p] = "load"]
  /\ screen' = NoScreen
  /\ UNCHANGED <<lock, run, runs, nextId, debits>>

\* lines 93-97 and 131-142: Allocate Funds submitted
AllocateFunds(p) ==
  /\ Ready(p)
  /\ \E e \in Options(ActiveEngineers(read_sheet("engineers"))),
        s \in Options(Column(read_sheet("sites"), "site_id")),
        a \in Grants :
       run' = [run EXCEPT ![p] =
                 [NoRun EXCEPT !.page = "Allocate Funds", !.stage = "primary",
                               !.sheet = "fund_allocations",
                               !.row = AllocationRow(nextId[p], e, s, a),
                               !.eng = e, !.site = s, !.amount = a,
                               !.object_id = nextId[p]]]
  /\ nextId' = [nextId EXCEPT ![p] = uuid4(@)]
  /\ pc' = [pc EXCEPT ![p] = "append"]
  /\ Begin(p)
  /\ UNCHANGED <<exists, book, lock, debits>>

\* lines 93-97 and 154-164: Assign Engineer submitted
AssignEngineer(p) ==
  /\ Ready(p)
  /\ \E e \in Options(Column(read_sheet("engineers"), "engineer_id")),
        s \in Options(Column(read_sheet("sites"), "site_id")) :
       run' = [run EXCEPT ![p] =
                 [NoRun EXCEPT !.page = "Assign Engineer", !.stage = "primary",
                               !.sheet = "assignments",
                               !.row = AssignmentRow(nextId[p], e, s, User(p)),
                               !.eng = e, !.site = s, !.object_id = nextId[p]]]
  /\ nextId' = [nextId EXCEPT ![p] = uuid4(@)]
  /\ pc' = [pc EXCEPT ![p] = "append"]
  /\ Begin(p)
  /\ UNCHANGED <<exists, book, lock, debits>>

\* lines 93-97 and 181-202: Record Expense submitted
RecordExpense(p) ==
  /\ Ready(p)
  /\ \E s \in Options(Column(read_sheet("sites"), "site_id")),
        e \in Options(Column(read_sheet("engineers"), "engineer_id")),
        a \in Amounts :
       run' = [run EXCEPT ![p] =
                 [NoRun EXCEPT !.page = "Record Expense", !.stage = "primary",
                               !.sheet = "expenses",
                               !.row = ExpenseRow(nextId[p], s, e, a),
                               !.eng = e, !.site = s, !.amount = a,
                               !.object_id = nextId[p]]]
  /\ nextId' = [nextId EXCEPT ![p] = uuid4(@)]
  /\ pc' = [pc EXCEPT ![p] = "append"]
  /\ Begin(p)
  /\ UNCHANGED <<exists, book, lock, debits>>

\* lines 93-97 and 253-256: Add Engineer submitted
AddEngineer(p) ==
  /\ Ready(p)
  /\ run' = [run EXCEPT ![p] =
               [NoRun EXCEPT !.page = "Add Engineer", !.stage = "primary",
                             !.sheet = "engineers",
                             !.row = EngineerRow(nextId[p]),
                             !.object_id = nextId[p]]]
  /\ nextId' = [nextId EXCEPT ![p] = uuid4(@)]
  /\ pc' = [pc EXCEPT ![p] = "append"]
  /\ Begin(p)
  /\ UNCHANGED <<exists, book, lock, debits>>

\* lines 93-97 and 266-268: Add Site submitted
AddSite(p) ==
  /\ Ready(p)
  /\ run' = [run EXCEPT ![p] =
               [NoRun EXCEPT !.page = "Add Site", !.stage = "primary",
                             !.sheet = "sites",
                             !.row = SiteRow(nextId[p]),
                             !.object_id = nextId[p]]]
  /\ nextId' = [nextId EXCEPT ![p] = uuid4(@)]
  /\ pc' = [pc EXCEPT ![p] = "append"]
  /\ Begin(p)
  /\ UNCHANGED <<exists, book, lock, debits>>

\* lines 97, 217 and 228-230: the Approve button of a pending expense; the
\* frame written is the expenses_df loaded at the top of the run
Approve(p) ==
  /\ Ready(p)
  /\ \E id \in Pending(read_sheet("expenses")) :
       run' = [run EXCEPT ![p] =
                 [NoRun EXCEPT !.page = "Approve", !.stage = "primary",
                               !.sheet = ReviewedSheet,
                               !.df = Reviewed(read_sheet("expenses"), id, TRUE, User(p)),
                               !.object_id = id]]
  /\ pc' = [pc EXCEPT ![p] = "acquire"]
  /\ Begin(p)
  /\ UNCHANGED <<exists, book, lock, nextId, debits>>

\* lines 97, 217 and 235-237: the Reject button of a pending expense
Reject(p) ==
  /\ Ready(p)
  /\ \E id \in Pending(read_sheet("expenses")) :
       run' = [run EXCEPT ![p] =
                 [NoRun EXCEPT !.page = "Reject", !.stage = "primary",
                               !.sheet = ReviewedSheet,
                               !.df = Reviewed(read_sheet("expenses"), id, FALSE, User(p)),
                               !.object_id = id]]
  /\ pc' = [pc EXCEPT ![p] = "acquire"]
  /\ Begin(p)
  /\ UNCHANGED <<exists, book, lock, nextId, debits>>

\* lines 54-55 of append_row: read the sheet, add the row
append_row(p) ==
  /\ pc[p] = "append"
  /\ exists
  /\ run' = [run EXCEPT ![p].df = Concat(read_sheet(run[p].sheet), run[p].row)]
  /\ pc' = [pc EXCEPT ![p] = "acquire"]
  /\ screen' = NoScreen
  /\ UNCHANGED <<exists, book, lock, runs, nextId, debits>>

\* lines 43-46 of write_sheet: the workbook exists, the lock is acquired
AcquireLock(p) ==
  /\ pc[p] = "acquire"
  /\ exists
  /\ LockFree(p)
  /\ lock' = p
  /\ pc' = [pc EXCEPT ![p] = "locked"]
  /\ screen' = NoScreen
  /\ UNCHANGED <<exists, book, run, runs, nextId, debits>>

\* lines 46, 50-51 of write_sheet: the lock is not acquired in time
LockTimeout(p) ==
  /\ pc[p] = "acquire"
  /\ exists
  /\ LockHeldByOther(p)
  /\ book' = OnTimeout(book, run[p].sheet, run[p].df)
  /\ AfterWrite(p, TRUE)
  /\ UNCHANGED <<exists, lock, runs, nextId, debits>>

\* lines 46-49 of write_sheet: rewrite the sheet, leave the with block
Rewrite(p) ==
  /\ pc[p] = "locked"
  /\ book' = Replaced(book, run[p].sheet, run[p].df)
  /\ lock' = Released(p)
  /\ AfterWrite(p, FALSE)
  /\ UNCHANGED <<exists, runs, nextId, debits>>

\* lines 46-49 of write_sheet: ExcelWriter raises (the file cannot be
\* opened); the with block releases the lock, no handler catches the
\* exception and the script run ends
WriteRaises(p) ==
  /\ pc[p] = "locked"
  /\ lock' = Released(p)
  /\ pc' = [pc EXCEPT ![p] = "idle"]
  /\ run' = [run EXCEPT ![p] = NoRun]
  /\ screen' = Page(p, run[p].busy, "exception")
  /\ UNCHANGED <<exists, book, runs, nextId, debits>>

\* lines 205-210: the reconciler of Record Expense reads fund_allocations
\* and debits the first candidate, or finds none and goes on to log()
Reconcile(p) ==
  /\ pc[p] = "reconcile"
  /\ exists
  /\ LET alloc_df == read_sheet("fund_allocations")
         mask == Mask(alloc_df, run[p].eng, run[p].site)
     IN  IF mask = {}
           THEN /\ pc' = [pc EXCEPT ![p] = "log"]
                /\ run' = [run EXCEPT ![p].stage = "audit"]
                /\ UNCHANGED debits
           ELSE /\ pc' = [pc EXCEPT ![p] = "acquire"]
                /\ run' = [run EXCEPT ![p].sheet = "fund_allocations",
                                      ![p].df = Reconciled(alloc_df, run[p].eng,
                                                           run[p].site, run[p].amount)]
                /\ debits' = debits \cup
                     {[allocation_id |-> alloc_df[FirstIndex(mask)].allocation_id,
                       expense_id |-> run[p].object_id,
                       amount |-> run[p].amount]}
  /\ screen' = NoScreen
  /\ UNCHANGED <<exists, book, lock, runs, nextId>>

\* lines 58-67 and 54-55: log() builds the entry, append_row reads audit_log
log(p) ==
  /\ pc[p] = "log"
  /\ exists
  /\ LET entry == AuditRow(nextId[p], LogAction(run[p].page),
                           run[p].object_id, User(p))
     IN  run' = [run EXCEPT ![p].sheet = "audit_log",
                            ![p].row = entry,
                            ![p].df = Concat(read_sheet("audit_log"), entry)]
  /\ nextId' = [nextId EXCEPT ![p] = uuid4(@)]
  /\ pc' = [pc EXCEPT ![p] = "acquire"]
  /\ screen' = NoScreen
  /\ UNCHANGED <<exists, book, lock, runs, debits>>

\* the steps of a script run of session p on an existing workbook
Run(p) ==
  \/ AllocateFunds(p)
  \/ AssignEngineer(p)
  \/ RecordExpense(p)
  \/ AddEngineer(p)
  \/ AddSite(p)
  \/ Approve(p)
  \/ Reject(p)
  \/ append_row(p)
  \/ AcquireLock(p)
  \/ LockTimeout(p)
  \/ Rewrite(p)
  \/ Reconcile(p)
  \/ log(p)

\* the deployed application: the workbook exists, the sessions submit forms
Next == \E p \in Procs : Run(p)

Spec == Init /\ [][Next]_vars

\* the first start of the application: no workbook yet, the first runs
\* create it
NextFresh == \E p \in Procs : FindNoWorkbook(p) \/ ensure_workbook(p) \/ Run(p)

SpecFresh == InitFresh /\ [][NextFresh]_vars

\* the deployed application on a file system where opening the workbook for
\* the rewrite may fail
NextFaults == \E p \in Procs : Run(p) \/ WriteRaises(p)

SpecFaults == Init /\ [][NextFaults]_vars

\* ---------------------------------------------------------------- claims
Range(f) == {f[i] : i \in DOMAIN f}

AllIdle == \A p \in Procs : pc[p] = "idle"

\* a write_sheet call of p returns in this step (after the rewrite or
\* after the timeout)
Returns(p) == pc[p] \in {"acquire", "locked"} /\ pc'[p] \notin {"acquire", "locked"}

\* the write_sheet call p is in was made by append_row
Appending(p) ==
  \/ run[p].stage = "audit"
  \/ run[p].stage = "primary" /\ run[p].page \notin {"Approve", "Reject"}

\* C1: a write_sheet call that acquired the lock replaces the named sheet
\* only: every other sheet of the workbook is after the rewrite exactly
\* what it was before, and the named sheet holds the frame written.
C1_WriteReplacesOnlyNamedSheet ==
  [][\A p \in Procs :
       (pc[p] = "locked" /\ pc'[p] # "locked") =>
         /\ \A t \in Sheets \ {run[p].sheet} : book'[t] = book[t]
         /\ book'[run[p].sheet] = to_excel(run[p].df)]_vars

\* C1 witness: Allocate Funds has rewritten fund_allocations (three rows
\* now) next to the non-empty expenses and audit_log sheets.
C1_Witness ==
  \E p \in Procs :
    /\ pc[p] = "log" /\ run[p].page = "Allocate Funds" /\ ~run[p].busy
    /\ Len(book["fund_allocations"]) = 3
    /\ book["expenses"] # <<>> /\ book["audit_log"] # <<>>

\* C2: a write_sheet call that times out waiting for the lock writes
\* nothing: the step that gives up leaves every sheet of the workbook (and
\* the file's existence) as it was.
C2_TimeoutWritesNothing ==
  [][\A p \in Procs :
       (pc[p] = "acquire" /\ pc'[p] \notin {"acquire", "locked"}) =>
         /\ book' = book
         /\ exists' = exists
         /\ lock' = lock]_vars

\* C2 witness: a run whose primary write_sheet call timed out goes on (the
\* st.error is on its page) while the other session is in the locked
\* section.
C2_Witness ==
  \E p, q \in Procs :
    /\ run[p].busy /\ pc[p] \in {"log", "reconcile"}
    /\ pc[q] = "locked"

\* C3: when a write times out the operation that issued it fails: its run
\* does not end with the handler's success message.
C3_TimeoutFailsOperation ==
  screen.busy => screen.outcome # "success"

\* C4: at most one session is inside the locked section of write_sheet.
C4_MutualExclusion ==
  Cardinality({p \in Procs : pc[p] = "locked"}) <= 1

\* C4 witness: one session is in the locked section while the other is
\* waiting for the lock.
C4_Witness ==
  \E p, q \in Procs : pc[p] = "locked" /\ pc[q] = "acquire"

\* C5: a session holds the lock only while it is inside the with block of
\* write_sheet: after the call has returned (rewrite done, timeout, or an
\* exception from the rewrite) the session does not hold the lock.
C5_LockReleasedOnEveryExit ==
  \A p \in Procs : pc[p] # "locked" => lock # p

\* C5 witness: a run has just ended by an exception raised in the locked
\* section, after an earlier write_sheet call of the run timed out, and no
\* session holds the lock.
C5_Witness ==
  /\ screen.outcome = "exception" /\ screen.busy
  /\ lock = NoProc

\* the key column of each sheet
KeyCol(t) ==
  CASE t = "engineers" -> "engineer_id"
    [] t = "sites" -> "site_id"
    [] t = "assignments" -> "assignment_id"
    [] t = "fund_allocations" -> "allocation_id"
    [] t = "expenses" -> "expense_id"
    [] t = "audit_log" -> "log_id"
    [] OTHER -> "company_id"

\* C6: no persisted row is ever removed: a row of a sheet is in that sheet
\* after every step, and a row of audit_log keeps all its fields.
C6_RowsNeverRemoved ==
  [][\A t \in Sheets : \A i \in DOMAIN book[t] :
       \E j \in DOMAIN book'[t] :
         /\ book'[t][j][KeyCol(t)] = book[t][i][KeyCol(t)]
         /\ t = "audit_log" => book'[t][j] = book[t][i]]_vars

\* C7: when append_row returns, a read of the sheet includes the appended
\* row with all its fields unchanged.
C7_AppendedRowReadsBack ==
  [][\A p \in Procs :
       (Returns(p) /\ Appending(p)) =>
         run[p].row \in Range(read_excel(book'[run[p].sheet]))]_vars

RECURSIVE SumAmounts(_)
SumAmounts(ds) ==
  IF ds = {} THEN 0
  ELSE LET d == CHOOSE x \in ds : TRUE
       IN  d.amount + SumAmounts(ds \ {d})

\* the debits the reconciler routed to an allocation
Routed(id) == {d \in debits : d.allocation_id = id}

\* C8: with no run in progress, the balance_remaining of every allocation
\* is amount_allocated minus the sum of the amounts of the debits the
\* reconciler routed to it.
C8_BalanceInvariant ==
  AllIdle =>
    \A a \in Range(book["fund_allocations"]) :
      a.balance_remaining = a.amount_allocated - SumAmounts(Routed(a.allocation_id))

\* C9: the persisted balance_remaining of an allocation never exceeds
\* amount_allocated and never increases from one state to the next.
C9_BalanceNeverIncreases ==
  [][\A a \in Range(book["fund_allocations"]) :
       \A b \in Range(book'["fund_allocations"]) :
         b.allocation_id = a.allocation_id =>
           /\ b.balance_remaining <= a.balance_remaining
           /\ b.balance_remaining <= b.amount_allocated]_vars

Steps(p) == pc'[p] # pc[p]

\* the row of a sheet with the given key, as a set (empty when absent)
RowsOf(b, t, id) == {r \in Range(b[t]) : r[KeyCol(t)] = id}

\* C11: recording an expense for an (engineer, site) pair with no candidate
\* allocation leaves fund_allocations (and every other sheet) unchanged at the
\* reconciler's step, raises no error (the handler goes on to log()), and
\* the expense row of the run is in the expenses sheet.
C11_NoCandidateKeepsAllocations ==
  [][\A p \in Procs :
       (/\ pc[p] = "reconcile" /\ Steps(p)
        /\ Mask(read_sheet("fund_allocations"), run[p].eng, run[p].site) = {}) =>
         /\ book' = book
         /\ pc'[p] = "log"
         /\ RowsOf(book', "expenses", run[p].object_id) # {}]_vars

\* an approve or reject action has set the expense row
ReviewedRow(r) == r.approved_by # Blank

\* C12: once an approve or reject action has set approved and approved_by of
\* an expense, no later step changes either field of that expense.
C12_ApprovedSetOnce ==
  [][\A r \in Range(book["expenses"]) :
       \A n \in RowsOf(book', "expenses", r.expense_id) :
         ReviewedRow(r) =>
           /\ n.approved = r.approved
           /\ n.approved_by = r.approved_by]_vars

\* C13: when the write_sheet call of an approve (reject) action by actor A
\* has returned, the persisted expense has approved = TRUE (FALSE) and
\* approved_by = A.
C13_ReviewPersisted ==
  [][\A p \in Procs :
       (/\ Returns(p) /\ run[p].stage = "primary"
        /\ run[p].page \in {"Approve", "Reject"}) =>
         \E r \in RowsOf(book', "expenses", run[p].object_id) :
           /\ r.approved = (run[p].page = "Approve")
           /\ r.approved_by = User(p)]_vars

\* the sheet a page's primary write goes to
PrimarySheet(page) ==
  CASE page = "Allocate Funds"  -> "fund_allocations"
    [] page = "Assign Engineer" -> "assignments"
    [] page = "Add Engineer"    -> "engineers"
    [] page = "Add Site"        -> "sites"
    [] OTHER                    -> "expenses"

\* the mutation of a page on object id by a user is in workbook b
Durable(b, page, id, user) ==
  \E r \in RowsOf(b, PrimarySheet(page), id) :
    /\ page = "Approve" => r.approved = TRUE /\ r.approved_by = user
    /\ page = "Reject" => r.approved = FALSE /\ r.approved_by = user

\* the audit entries of workbook b for an action on an object
Entries(b, action, id) ==
  {i \in DOMAIN b["audit_log"] :
     /\ b["audit_log"][i].action = action
     /\ b["audit_log"][i].object_id = id}

\* C14: when a mutating action completes, audit_log holds exactly one entry
\* for that action and object id, and the mutation the entry is for is
\* durable.
C14_OneAuditEntryPerMutation ==
  [][\A p \in Procs :
       (Returns(p) /\ run[p].stage = "audit") =>
         /\ Cardinality(Entries(book', LogAction(run[p].page), run[p].object_id)) = 1
         /\ Durable(book', run[p].page, run[p].object_id, User(p))]_vars

\* C15: the lost update of a read followed by a separate locked write.  A
\* persisted row leaves its sheet only in one way: a session that holds the
\* lock rewrites that sheet with a frame that lacks the row (read before the
\* row was persisted), and the writer's call returns normally.
C15_RowLostOnlyToLockedStaleWrite ==
  [][\A t \in Sheets :
       book'[t] # book[t] =>
         LET lost == Column(book[t], KeyCol(t)) \ Column(book'[t], KeyCol(t))
         IN  lost # {} =>
               \E p \in Procs :
                 /\ pc[p] = "locked" /\ lock = p
                 /\ run[p].sheet = t
                 /\ lost \cap Column(run[p].df, KeyCol(t)) = {}
                 /\ pc'[p] \in {"reconcile", "log", "idle"}
                 /\ screen'.outcome # "exception"]_vars

\* C15 witness: two sessions submitted Allocate Funds, both append_row calls
\* got the lock and returned without a timeout, and fund_allocations holds
\* the row of one of them only.
C15_Witness ==
  \E p, q \in Procs :
    /\ p # q
    /\ pc[p] = "log" /\ pc[q] = "log"
    /\ run[p].page = "Allocate Funds" /\ run[q].page = "Allocate Funds"
    /\ ~run[p].busy /\ ~run[q].busy
    /\ RowsOf(book, "fund_allocations", run[p].object_id) = {}
    /\ RowsOf(book, "fund_allocations", run[q].object_id) # {}

\* C16: an ensure_workbook call that writes the file finds no workbook: an
\* existing workbook and every row in it survive the call.
C16_EnsureKeepsExistingWorkbook ==
  [][\A p \in Procs :
       (pc[p] = "create" /\ Steps(p) /\ exists) =>
         /\ exists'
         /\ book' = book]_vars

\* p's run is one of the Approvals handler
Reviewing(p) ==
  \/ run[p].page \in {"Approve", "Reject"}
  \/ run'[p].page \in {"Approve", "Reject"}

\* C17: the reconciler belongs to expense creation, not to approval: every
\* step of an approve or reject action leaves fund_allocations as it was and
\* routes no debit, and a Record Expense run that finds a candidate issues
\* its debit write in the same run, right after its expense append, without
\* looking at the approval state.
C17_DebitAtCreationNotApproval ==
  [][\A p \in Procs :
       Steps(p) =>
         /\ Reviewing(p) =>
              /\ book'["fund_allocations"] = book["fund_allocations"]
              /\ debits' = debits
         /\ debits' # debits =>
              /\ run[p].page = "Record Expense" /\ pc[p] = "reconcile"
              /\ debits' \ debits =
                   {[allocation_id |->
                       read_sheet("fund_allocations")[
                         FirstIndex(Mask(read_sheet("fund_allocations"),
                                         run[p].eng, run[p].site))].allocation_id,
                     expense_id |-> run[p].object_id,
                     amount |-> run[p].amount]}
              /\ pc'[p] = "acquire" /\ run'[p].sheet = "fund_allocations"
         /\ (Returns(p) /\ run[p].stage = "primary"
             /\ run[p].page = "Record Expense") => pc'[p] = "reconcile"]_vars

\* C17 witness: the expense a Record Expense run created is persisted and
\* not reviewed, and the debit of its amount is persisted in allocation 9.
C17_Witness ==
  \E p \in Procs :
    /\ pc[p] = "log" /\ run[p].page = "Record Expense" /\ ~run[p].busy
    /\ \E r \in RowsOf(book, "expenses", run[p].object_id) :
         r.approved = FALSE /\ ~ReviewedRow(r)
    /\ [allocation_id |-> 9, expense_id |-> run[p].object_id,
        amount |-> 1] \in debits
    /\ \E a \in RowsOf(book, "fund_allocations", 9) : a.balance_remaining = 0

\* C18: in every mutating operation log() is called only after the primary
\* write_sheet call has returned; in Record Expense the order is the
\* expense append, then the reconciler and its debit write (if any), then
\* log().
C18_LogAfterPrimaryWrite ==
  [][\A p \in Procs :
       LET before == run[p].stage
           after == run'[p].stage
           expense == run[p].page = "Record Expense"
       IN  /\ (after = "debit" /\ before # "debit") =>
                Returns(p) /\ before = "primary" /\ expense
           /\ (after = "audit" /\ before # "audit") =>
                \/ Returns(p) /\ before = "primary" /\ ~expense
                \/ Returns(p) /\ before = "debit" /\ expense
                     /\ run[p].sheet = "fund_allocations"
                \/ pc[p] = "reconcile" /\ before = "debit" /\ expense
                     /\ Mask(read_sheet("fund_allocations"),
                             run[p].eng, run[p].site) = {}
           /\ (run'[p].sheet = "audit_log" /\ run[p].sheet # "audit_log") =>
                pc[p] = "log" /\ before = "audit"]_vars

\* C18 witness: a Record Expense run is in the write_sheet call of log()
\* after its expense append and its debit write were both written.
C18_Witness ==
  \E p \in Procs :
    /\ pc[p] = "acquire" /\ run[p].sheet = "audit_log"
    /\ run[p].page = "Record Expense" /\ ~run[p].busy
    /\ RowsOf(book, "expenses", run[p].object_id) # {}
    /\ \E d \in debits : d.expense_id = run[p].object_id

\* p is inside a write_sheet call
Writing(p) == pc[p] \in {"acquire", "locked"}

\* the scheduling the code guarantees: FileLock.acquire returns, with the
\* lock or after LOCK_TIMEOUT, and the rewrite inside the with block ends
Fairness ==
  \A p \in Procs :
    /\ WF_vars(AcquireLock(p) \/ LockTimeout(p))
    /\ WF_vars(Rewrite(p))

\* the application from its first start, under that scheduling
SpecLive == SpecFresh /\ Fairness

\* C19: every write_sheet call finishes (the sheet rewritten and the lock
\* released, or a lock timeout), and no session holds the lock while it
\* waits for it.
C19_WriteFinishes ==
  /\ [](\A p \in Procs : pc[p] = "acquire" => lock # p)
  /\ \A p \in Procs : Writing(p) ~> ~Writing(p)

\* C19 witness: a session whose earlier write_sheet call timed out waits for
\* the lock again while the other session is in the locked section.
C19_Witness ==
  \E p, q \in Procs :
    /\ pc[p] = "acquire" /\ run[p].busy
    /\ pc[q] = "locked" /\ lock = q

\* C20: Record Expense never leaves its two writes half-done: when the
\* write_sheet call of the debit returns, the debit was written exactly if
\* the expense row is in the expenses sheet.
C20_DebitIffExpensePersisted ==
  [][\A p \in Procs :
       (Returns(p) /\ run[p].stage = "debit") =>
         (pc[p] = "locked" <=>
            RowsOf(book', "expenses", run[p].object_id) # {})]_vars

====
